---- MODULE Spec2Model ----
(***************************************************************************)
(* A model of the Hidden Markov Model class of src/src/hmm.coffee: the     *)
(* model object (states, finalState, symbols and the three probability     *)
(* tables), its accessors, the Viterbi decoder, the forward scorer, the    *)
(* re-estimator and the initializer.                                       *)
(*                                                                         *)
(* Numbers.  The program computes with IEEE doubles; here a number is an   *)
(* exact non-negative rational <<n, d>> in lowest terms (d > 0), so the    *)
(* only rounding in the model is the explicit one of toFixed(6).           *)
(* JavaScript's undefined, where a number is expected, is the pair <<0,0>>.*)
(*                                                                         *)
(* Objects.  A JavaScript object used as a dictionary is the sequence of   *)
(* its own properties <<key, value>> in property order (the order          *)
(* JSON.stringify writes them).  Keys are ordinary identifiers: none is    *)
(* the name of a member of Object.prototype.                               *)
(***************************************************************************)
EXTENDS Integers, Sequences, FiniteSets, TLC

\* ------------------------------------------------------------- numbers

Zero == <<0, 1>>
One == <<1, 1>>
Undefined == <<0, 0>>
Null == "null"

RECURSIVE GCD(_, _)
GCD(a, b) == IF b = 0 THEN a ELSE GCD(b, a % b)

\* count / total (hmm.coffee 146, 166, 169): the quotient of two integers.
Div(n, d) == IF n = 0 THEN Zero ELSE LET g == GCD(n, d) IN <<n \div g, d \div g>>

\* x * y
Mul(x, y) ==
  IF x[1] = 0 \/ y[1] = 0 THEN Zero
  ELSE LET g1 == GCD(x[1], y[2])
           g2 == GCD(y[1], x[2])
       IN  <<(x[1] \div g1) * (y[1] \div g2), (x[2] \div g2) * (y[2] \div g1)>>

\* x + y
Add(x, y) ==
  LET g == GCD(x[2], y[2])
  IN  Div(x[1] * (y[2] \div g) + y[1] * (x[2] \div g), (x[2] \div g) * y[2])

\* x >= y
Geq(x, y) ==
  LET g == GCD(x[2], y[2])
  IN  x[1] * (y[2] \div g) >= y[1] * (x[2] \div g)

\* x > 0
Positive(x) == x[1] > 0

\* The number of decimal digits of toFixed (hmm.coffee 275, 308).
FixedDigits == 6

RECURSIVE Pow10(_)
Pow10(k) == IF k = 0 THEN 1 ELSE 10 * Pow10(k - 1)

\* round(r * 10^k / d) for 0 <= r < d, by long division; a tie rounds up, as
\* Number.prototype.toFixed picks the larger n.
RECURSIVE FixedFraction(_, _, _)
FixedFraction(r, d, k) ==
  IF k = 0 THEN (IF 2 * r >= d THEN 1 ELSE 0)
  ELSE ((r * 10) \div d) * Pow10(k - 1) + FixedFraction((r * 10) % d, d, k - 1)

\* parseFloat x.toFixed 6
ToFixed(x) ==
  Div((x[1] \div x[2]) * Pow10(FixedDigits) + FixedFraction(x[1] % x[2], x[2], FixedDigits),
      Pow10(FixedDigits))

\* ------------------------------------------------------------- objects

Range(s) == {s[i] : i \in DOMAIN s}

Has(o, k) == \E i \in DOMAIN o : o[i][1] = k

\* o[k] for a key the object has
Get(o, k) == o[CHOOSE i \in DOMAIN o : o[i][1] = k][2]

\* ------------------------------------------------------------- the model

VARIABLES states, finalState, symbols,
          initialProbability, transitionProbability, emissionProbability

vars == <<states, finalState, symbols,
          initialProbability, transitionProbability, emissionProbability>>

\* The object a method is called on.
This == [states |-> states, finalState |-> finalState, symbols |-> symbols,
         initialProbability |-> initialProbability,
         transitionProbability |-> transitionProbability,
         emissionProbability |-> emissionProbability]

\* ip without the default: a missing state reads undefined.
ipNoDefault(this, state) ==
  IF Has(this.initialProbability, state)
  THEN Get(this.initialProbability, state) ELSE Undefined

\* @initialProbability[state] ? 0
ip(this, state) ==
  IF Has(this.initialProbability, state)
  THEN Get(this.initialProbability, state) ELSE Zero

\* tp without the defaults: a missing row or target reads undefined.
tpNoDefault(this, source, target) ==
  IF Has(this.transitionProbability, source)
  THEN LET row == Get(this.transitionProbability, source)
       IN  IF Has(row, target) THEN Get(row, target) ELSE Undefined
  ELSE Undefined

\* @transitionProbability[source]?[target] ? 0
tp(this, source, target) ==
  IF Has(this.transitionProbability, source)
  THEN LET row == Get(this.transitionProbability, source)
       IN  IF Has(row, target) THEN Get(row, target) ELSE Zero
  ELSE Zero

\* @emissionProbability[state]?[symbol] ? 0
ep(this, state, symbol) ==
  IF Has(this.emissionProbability, state)
  THEN LET row == Get(this.emissionProbability, state)
       IN  IF Has(row, symbol) THEN Get(row, symbol) ELSE Zero
  ELSE Zero

\* ------------------------------------------------------------- viterbi

\* The scan without its comparison: the last candidate wins.
ScanLast(cands, k) == IF k = 0 THEN <<Zero, Null>> ELSE cands[k]

\* The scan with > for >=: a candidate equal to the best so far is passed over.
RECURSIVE ScanStrict(_, _)
ScanStrict(cands, k) ==
  IF k = 0 THEN <<Zero, Null>>
  ELSE LET prev == ScanStrict(cands, k - 1)
       IN  IF Geq(cands[k][1], prev[1]) /\ cands[k][1] # prev[1] THEN cands[k] ELSE prev

\* max = [ 0, null ]; for ...: max = [ calc, source ] if calc >= _.head max
\* over the first k candidates <<calc, source>> of cands.
RECURSIVE ScanMax(_, _)
ScanMax(cands, k) ==
  IF k = 0 THEN <<Zero, Null>>
  ELSE LET prev == ScanMax(cands, k - 1)
       IN  IF Geq(cands[k][1], prev[1]) THEN cands[k] ELSE prev

\* V[t] and path after the base case (t = 0) and after pass t of the
\* recurrence (t >= 1); item[t + 1] is the source's item[t].  raised: some
\* path[ _.last max ] was path[null], undefined, and .concat threw.
RECURSIVE Trellis(_, _, _)
Trellis(this, item, t) ==
  LET st == this.states
      n == Len(st)
  IN  IF t = 0
      THEN [V |-> [s \in Range(st) |-> Mul(ip(this, s), ep(this, s, item[1]))],
            path |-> [s \in Range(st) |-> <<s>>],
            raised |-> FALSE]
      ELSE LET prev == Trellis(this, item, t - 1)
               best == [target \in Range(st) |->
                         ScanMax([i \in 1..n |->
                                   <<Mul(prev.V[st[i]],
                                         Mul(tp(this, st[i], target),
                                             ep(this, target, item[t + 1]))),
                                     st[i]>>], n)]
           IN  IF prev.raised \/ \E target \in Range(st) : best[target][2] = Null
               THEN [V |-> prev.V, path |-> prev.path, raised |-> TRUE]
               ELSE [V |-> [target \in Range(st) |-> best[target][1]],
                     path |-> [target \in Range(st) |->
                                Append(prev.path[best[target][2]], target)],
                     raised |-> FALSE]

\* A termination step that keeps the best score but names the first state
\* as its source.
TerminationOfFirst(this, last) ==
  LET st == this.states
      best == ScanMax([i \in 1..Len(st) |->
                        <<Mul(last.V[st[i]], tp(this, st[i], this.finalState)), st[i]>>],
                      Len(st))
  IN  IF Len(st) = 0 THEN best ELSE <<best[1], st[1]>>

\* The termination step: the best source of the move into finalState.
Termination(this, last) ==
  LET st == this.states
  IN  ScanMax([i \in 1..Len(st) |->
                <<Mul(last.V[st[i]], tp(this, st[i], this.finalState)), st[i]>>], Len(st))

\* The final selection with > for >=.
FinalSelectionStrict(this, term) ==
  LET st == this.states
  IN  ScanStrict([i \in 1..Len(st) |->
                   <<IF st[i] = this.finalState THEN term[1] ELSE Zero, st[i]>>], Len(st))

\* The final selection: V[ item.length ] holds a score for finalState only,
\* every other state scores V[ item.length ][ state ] ? 0 = 0.
FinalSelection(this, term) ==
  LET st == this.states
  IN  ScanMax([i \in 1..Len(st) |->
                <<IF st[i] = this.finalState THEN term[1] ELSE Zero, st[i]>>], Len(st))

\* What viterbi gives when it throws.
Thrown == [raised |-> TRUE, probability |-> Undefined, defined |-> FALSE, path |-> <<>>]

\* viterbi: (item) -> { probability, path }, or the TypeError it throws:
\* for an empty item V[ t - 1 ] is V[ -1 ], undefined.  defined: path is an
\* array, not undefined.
viterbi(this, item) ==
  IF Len(item) = 0 THEN Thrown
  ELSE LET last == Trellis(this, item, Len(item) - 1)
           term == Termination(this, last)
       IN  IF last.raised \/ term[2] = Null THEN Thrown
           ELSE LET path == [k \in Range(this.states) \cup {this.finalState} |->
                              IF k = this.finalState
                              THEN Append(last.path[term[2]], this.finalState)
                              ELSE last.path[k]]
                    max == FinalSelection(this, term)
                IN  [raised |-> FALSE,
                     probability |-> ToFixed(max[1]),
                     defined |-> max[2] # Null,
                     path |-> IF max[2] = Null THEN <<>> ELSE path[max[2]]]

\* ------------------------------------------------------------- forward

RECURSIVE SumSeq(_, _)
SumSeq(xs, k) == IF k = 0 THEN Zero ELSE Add(SumSeq(xs, k - 1), xs[k])

Tail0(s) == IF Len(s) = 0 THEN s ELSE Tail(s)

RECURSIVE forwardProbability(_, _, _)
RECURSIVE getSequenceProbability(_, _, _)
getSequenceProbability(this, source, sequence) ==
  IF Len(sequence) = 0 THEN tp(this, source, this.finalState)
  ELSE LET st == this.states
       IN  SumSeq([i \in 1..Len(st) |->
                    Mul(tp(this, source, st[i]),
                        forwardProbability(this, sequence, st[i]))], Len(st))

\* forwardProbability: (item, state); state is Null when no state is given.
forwardProbability(this, item, state) ==
  LET symbol == item[1]
      rest == Tail0(item)
      st == this.states
  IN  IF state = Null
      THEN ToFixed(SumSeq([i \in 1..Len(st) |->
                            LET iep == Mul(ep(this, st[i], symbol), ip(this, st[i]))
                            IN  IF Positive(iep)
                                THEN Mul(iep, getSequenceProbability(this, st[i], rest))
                                ELSE Zero], Len(st)))
      ELSE ToFixed(Mul(ep(this, state, symbol),
                       getSequenceProbability(this, state, rest)))

generationProbability(this, item) == forwardProbability(this, item, Null)

viterbiApproximation(this, item) == viterbi(this, item).probability

\* ------------------------------------------------------------- reestimate

\* "#{i}" for the small integers the model uses.
IntStr == <<"0", "1", "2", "3", "4", "5", "6", "7", "8", "9">>
Str(i) == IntStr[i + 1]

\* A key that is an array index: such properties come first, in ascending
\* numeric order, in an object's property order.
IsIndex(k) == k \in Range(IntStr)
IndexOf(k) == (CHOOSE i \in DOMAIN IntStr : IntStr[i] = k) - 1

\* o[k] = v
Put(o, k, v) ==
  IF Has(o, k) THEN [i \in DOMAIN o |-> IF o[i][1] = k THEN <<k, v>> ELSE o[i]]
  ELSE IF IsIndex(k)
       THEN LET before == Cardinality({i \in DOMAIN o :
                              IsIndex(o[i][1]) /\ IndexOf(o[i][1]) < IndexOf(k)})
            IN  SubSeq(o, 1, before) \o << <<k, v>> >> \o SubSeq(o, before + 1, Len(o))
       ELSE Append(o, <<k, v>>)

\* o[k] ?= 0; o[k]++
Incr(o, k) == Put(o, k, (IF Has(o, k) THEN Get(o, k) ELSE 0) + 1)

\* o[k] ?= {}; o[k][k2] ?= 0; o[k][k2]++
Incr2(o, k, k2) == Put(o, k, Incr(IF Has(o, k) THEN Get(o, k) ELSE <<>>, k2))

\* JSON.stringify of a number, of a row { key: number } and of a table
\* { key: row }: the sequence of its tokens <<text, n, d>>.
StringifyRow(row) ==
  << <<"{", 0, 0>> >> \o [i \in 1..(2 * Len(row)) |->
       IF i % 2 = 1 THEN <<row[(i + 1) \div 2][1], 0, 0>>
       ELSE <<":", row[i \div 2][2][1], row[i \div 2][2][2]>>] \o << <<"}", 0, 0>> >>

RECURSIVE StringifyEntries(_, _)
StringifyEntries(o, k) ==
  IF k = 0 THEN <<>>
  ELSE StringifyEntries(o, k - 1) \o << <<o[k][1], 0, 0>> >> \o StringifyRow(o[k][2])

Stringify(o) == << <<"{", 0, 0>> >> \o StringifyEntries(o, Len(o)) \o << <<"}", 0, 0>> >>

\* for item in items: paths.push @viterbi( item ).path
ViterbiPaths(this, items) == [i \in DOMAIN items |-> viterbi(this, items[i])]

\* for path in paths: initials[ head ] ?= 0; initials[ head ]++
RECURSIVE Initials(_, _)
Initials(paths, k) ==
  IF k = 0 THEN <<>> ELSE Incr(Initials(paths, k - 1), paths[k][1])

\* `for state in initials` walks initials as an array, initials[0] up to
\* initials[initials.length - 1]; initials is a dictionary keyed by state
\* and no state is named "length", so there is nothing to walk.
ArrayElements(o) == IF Has(o, "length") THEN [i \in 1..Get(o, "length") |-> "undefined"] ELSE <<>>

\* for state in initials: @initialProbability[ state ] = initials[ state ] / paths.length
RECURSIVE SetInitials(_, _, _, _, _)
SetInitials(table, initials, walked, k, total) ==
  IF k = 0 THEN table
  ELSE Put(SetInitials(table, initials, walked, k - 1, total), walked[k],
           IF Has(initials, walked[k]) THEN Div(Get(initials, walked[k]), total)
           ELSE Undefined)

\* The steps of one path with each state paired with the symbol after its own.
PathStepsShifted(item, path) ==
  [j \in 1..(Len(path) - 1) |->
    <<path[j], path[j + 1], IF j + 1 <= Len(item) THEN item[j + 1] ELSE "undefined">>]

\* The steps <<source, target, item[ j ]>> of one path, j in [0...(path.length - 1)].
PathSteps(item, path) ==
  [j \in 1..(Len(path) - 1) |->
    <<path[j], path[j + 1], IF j <= Len(item) THEN item[j] ELSE "undefined">>]

RECURSIVE AllSteps(_, _, _)
AllSteps(items, paths, k) ==
  IF k = 0 THEN <<>>
  ELSE AllSteps(items, paths, k - 1) \o PathSteps(items[k], paths[k])

\* sum, transitions and symbols after the first k steps.
RECURSIVE Counts(_, _)
Counts(steps, k) ==
  IF k = 0 THEN [sum |-> <<>>, transitions |-> <<>>, symbols |-> <<>>]
  ELSE LET c == Counts(steps, k - 1)
       IN  [sum |-> Incr(c.sum, steps[k][1]),
            transitions |-> Incr2(c.transitions, steps[k][1], steps[k][2]),
            symbols |-> Incr2(c.symbols, steps[k][1], steps[k][3])]

\* The ratios with a total that counts one occurrence too many.
RatiosOffByOne(counts, total) ==
  [i \in DOMAIN counts |-> <<counts[i][1], Div(counts[i][2], total + 1)>>]

\* for dst, transition_count of transition: row[ dst ] = transition_count / sum[ src ]
Ratios(counts, total) == [i \in DOMAIN counts |-> <<counts[i][1], Div(counts[i][2], total)>>]

\* for src, transition of transitions: the rows of @transitionProbability
TransitionTable(c) ==
  [i \in DOMAIN c.transitions |->
    <<c.transitions[i][1], Ratios(c.transitions[i][2], Get(c.sum, c.transitions[i][1]))>>]

\* ... and, inside the same loop, the rows of @emissionProbability
EmissionTable(c) ==
  [i \in DOMAIN c.transitions |->
    <<c.transitions[i][1],
      Ratios(Get(c.symbols, c.transitions[i][1]), Get(c.sum, c.transitions[i][1]))>>]

\* A pass that walks the keys of initials and adds each ratio to the entry
\* the table holds (`+=` for `=`).
RECURSIVE AddInitials(_, _, _, _)
AddInitials(table, initials, k, total) ==
  IF k = 0 THEN table
  ELSE LET t == AddInitials(table, initials, k - 1, total)
           key == initials[k][1]
           ratio == Div(initials[k][2], total)
       IN  Put(t, key, IF Has(t, key) THEN Add(Get(t, key), ratio) ELSE ratio)

PassAddingInitials(this, items, paths) ==
  LET initials == Initials(paths, Len(paths))
      c == Counts(AllSteps(items, paths, Len(paths)), Len(AllSteps(items, paths, Len(paths))))
  IN  [this EXCEPT
        !.initialProbability = AddInitials(@, initials, Len(initials), Len(paths)),
        !.transitionProbability = TransitionTable(c),
        !.emissionProbability = EmissionTable(c)]

\* A pass that also pushes finalState onto the states, as initialize does.
PassPushingFinalState(this, items, paths) ==
  LET c == Counts(AllSteps(items, paths, Len(paths)), Len(AllSteps(items, paths, Len(paths))))
  IN  [this EXCEPT
        !.states = Append(@, this.finalState),
        !.transitionProbability = TransitionTable(c),
        !.emissionProbability = EmissionTable(c)]

\* A pass that does not empty the two tables first: the rows of the states
\* it does not count stay as they were.
KeptRows(old, new) == new \o SelectSeq(old, LAMBDA row : ~Has(new, row[1]))

PassKeepingRows(this, items, paths) ==
  LET initials == Initials(paths, Len(paths))
      walked == ArrayElements(initials)
      c == Counts(AllSteps(items, paths, Len(paths)), Len(AllSteps(items, paths, Len(paths))))
  IN  [this EXCEPT
        !.initialProbability = SetInitials(@, initials, walked, Len(walked), Len(paths)),
        !.transitionProbability = KeptRows(@, TransitionTable(c)),
        !.emissionProbability = KeptRows(@, EmissionTable(c))]

\* One pass of the while loop, the paths being known.
Pass(this, items, paths) ==
  LET initials == Initials(paths, Len(paths))
      walked == ArrayElements(initials)
      c == Counts(AllSteps(items, paths, Len(paths)), Len(AllSteps(items, paths, Len(paths))))
  IN  [this EXCEPT
        !.initialProbability = SetInitials(@, initials, walked, Len(walked), Len(paths)),
        !.transitionProbability = TransitionTable(c),
        !.emissionProbability = EmissionTable(c)]

\* shouldRepeat: states, symbols and initialProbability are the same objects
\* before and after a pass, so only the two serialized tables can differ.
ShouldRepeat(original, this) ==
  \/ Stringify(original.transitionProbability) # Stringify(this.transitionProbability)
  \/ Stringify(original.emissionProbability) # Stringify(this.emissionProbability)

\* A loop that decodes the paths again before every pass after the first.
RECURSIVE WhileDecoding(_, _, _, _)
WhileDecoding(this, items, paths, passes) ==
  LET new == Pass(this, items, paths)
      decoded == ViterbiPaths(new, items)
  IN  IF ShouldRepeat(this, new)
      THEN WhileDecoding(new, items, [i \in DOMAIN decoded |-> decoded[i].path], passes + 1)
      ELSE [this |-> new, passes |-> passes + 1, raised |-> FALSE]

\* while shouldRepeat: the model when the loop ends, and the passes it took.
RECURSIVE While(_, _, _, _)
While(this, items, paths, passes) ==
  LET new == Pass(this, items, paths)
  IN  IF ShouldRepeat(this, new) THEN While(new, items, paths, passes + 1)
      ELSE [this |-> new, passes |-> passes + 1, raised |-> FALSE]

\* The paths argument when the caller gives none (undefined).
NoPaths == << <<Null>> >>

\* reestimate: (items, paths); without paths the first pass decodes them, once.
reestimate(this, items, paths) ==
  IF paths = NoPaths
  THEN LET decoded == ViterbiPaths(this, items)
       IN  IF \E i \in DOMAIN decoded : decoded[i].raised
           THEN [this |-> this, passes |-> 0, raised |-> TRUE]
           ELSE While(this, items, [i \in DOMAIN decoded |-> decoded[i].path], 0)
  ELSE While(this, items, paths, 0)

\* ------------------------------------------------------------- initialize

\* The CoffeeScript range [a..b]: ascending when a <= b, descending otherwise.
RangeInclusive(a, b) ==
  IF a <= b THEN [i \in 1..(b - a + 1) |-> a + i - 1]
  ELSE [i \in 1..(a - b + 1) |-> a - i + 1]

\* @symbols.push symbol unless symbol in @symbols
RECURSIVE PushUnique(_, _, _)
PushUnique(acc, sequence, k) ==
  IF k = 0 THEN acc
  ELSE LET a == PushUnique(acc, sequence, k - 1)
       IN  IF sequence[k] \in Range(a) THEN a ELSE Append(a, sequence[k])

RECURSIVE CollectSymbols(_, _)
CollectSymbols(items, k) ==
  IF k = 0 THEN <<>>
  ELSE PushUnique(CollectSymbols(items, k - 1), items[k], Len(items[k]))

\* The linear segmentation of one sequence over n states.
SegmentationPath(sequence, n) ==
  LET js == RangeInclusive(1, Len(sequence))
  IN  [i \in DOMAIN js |-> Str(1 + ((js[i] * n) \div (Len(sequence) + 1)))] \o <<"F">>

initialize(this, items, n) ==
  LET ns == RangeInclusive(1, n)
      fresh == [this EXCEPT
                 !.symbols = CollectSymbols(items, Len(items)),
                 !.states = [i \in DOMAIN ns |-> Str(ns[i])] \o <<"F">>,
                 !.finalState = "F"]
  IN  reestimate(fresh, items, [i \in DOMAIN items |-> SegmentationPath(items[i], n)])

\* ------------------------------------------------------------- hmm.js
\* The older implementation (part_000), whose reestimate assigns finalState.

\* viterbi of part_000 (345-401): the recurrence is that of hmm.coffee; the
\* termination stores its score and its path under `state`, which the loops
\* have left at the last of the states, and the final selection compares
\* with >, so that a score of 0 selects nothing and the path is undefined.
viterbiJs(this, item) ==
  LET st == this.states
  IN  IF Len(st) = 0 THEN Thrown
      ELSE LET last == IF Len(item) = 0
                       THEN [V |-> [s \in Range(st) |-> Zero],
                             path |-> [s \in Range(st) |-> <<s>>],
                             raised |-> FALSE]
                       ELSE Trellis(this, item, Len(item) - 1)
               term == Termination(this, last)
           IN  IF last.raised \/ term[2] = Null THEN Thrown
               ELSE IF Positive(term[1])
                    THEN [raised |-> FALSE, probability |-> ToFixed(term[1]),
                          defined |-> TRUE,
                          path |-> Append(last.path[term[2]], st[Len(st)])]
                    ELSE [raised |-> FALSE, probability |-> Zero,
                          defined |-> FALSE, path |-> <<>>]

\* for ( i in initials ) this.initialProbability[ i ] = initials[ i ] / paths.length
RECURSIVE SetInitialsJs(_, _, _, _)
SetInitialsJs(table, initials, k, total) ==
  IF k = 0 THEN table
  ELSE Put(SetInitialsJs(table, initials, k - 1, total), initials[k][1],
           Div(initials[k][2], total))

\* One pass of the while loop of part_000 (203-268), the paths being known.
PassJs(this, items, paths) ==
  LET initials == Initials(paths, Len(paths))
      c == Counts(AllSteps(items, paths, Len(paths)), Len(AllSteps(items, paths, Len(paths))))
  IN  [this EXCEPT
        !.finalState = "F",
        !.initialProbability = SetInitialsJs(@, initials, Len(initials), Len(paths)),
        !.transitionProbability = TransitionTable(c),
        !.emissionProbability = EmissionTable(c)]

\* shouldRepeat of part_000 (270-277): finalState is compared as well.
ShouldRepeatJs(original, this) ==
  \/ original.finalState # this.finalState
  \/ ShouldRepeat(original, this)

RECURSIVE WhileJs(_, _, _, _)
WhileJs(this, items, paths, passes) ==
  LET new == PassJs(this, items, paths)
  IN  IF ShouldRepeatJs(this, new) THEN WhileJs(new, items, paths, passes + 1)
      ELSE [this |-> new, passes |-> passes + 1, raised |-> FALSE]

\* reestimate of part_000 (198-280).  A decoded path that is undefined makes
\* paths[ i ][ 0 ] throw, after finalState and the two tables were assigned.
reestimateJs(this, items, paths) ==
  IF paths = NoPaths
  THEN LET decoded == [i \in DOMAIN items |-> viterbiJs(this, items[i])]
       IN  IF \E i \in DOMAIN decoded : decoded[i].raised
           THEN [this |-> this, passes |-> 0, raised |-> TRUE]
           ELSE IF \E i \in DOMAIN decoded : ~decoded[i].defined
                THEN [this |-> [this EXCEPT !.finalState = "F",
                                            !.transitionProbability = <<>>,
                                            !.emissionProbability = <<>>],
                      passes |-> 0, raised |-> TRUE]
                ELSE WhileJs(this, items, [i \in DOMAIN decoded |-> decoded[i].path], 0)
  ELSE WhileJs(this, items, paths, 0)

\* ------------------------------------------------------------- behaviour

\* The call in progress on the model and what it returns; Idle between
\* calls (the program is sequential: a call starts when the last has returned).
\* A call that changes the model also keeps the model as it was before.
VARIABLE call

Idle == [op |-> "idle"]

allvars == <<vars, call>>

\* Bounds of the inputs.
MaxLen == 2
MaxItems == 2
MaxN == 2

\* Two of the probabilities the models below are built from.
Half == Div(1, 2)
Third == Div(1, 3)

\* new HMM(): every argument defaulted (hmm.coffee 24-31).
FreshModel ==
  [states |-> <<>>, finalState |-> "", symbols |-> <<>>,
   initialProbability |-> <<>>, transitionProbability |-> <<>>,
   emissionProbability |-> <<>>]

\* The model of the README and of the tests (part_001 32-54).
ReadmeModel ==
  [states |-> <<"1", "2", "3", "F">>, finalState |-> "F", symbols |-> <<"a", "b", "c">>,
   initialProbability |-> << <<"1", One>> >>,
   transitionProbability |->
     << <<"1", << <<"1", Div(2, 10)>>, <<"2", Div(5, 10)>>, <<"3", Div(3, 10)>> >> >>,
        <<"2", << <<"1", Div(1, 10)>>, <<"3", Div(9, 10)>> >> >>,
        <<"3", << <<"3", Div(4, 10)>>, <<"F", Div(6, 10)>> >> >> >>,
   emissionProbability |->
     << <<"1", << <<"b", Div(3, 10)>>, <<"c", Div(7, 10)>> >> >>,
        <<"2", << <<"a", Div(3, 10)>>, <<"b", Div(6, 10)>>, <<"c", Div(1, 10)>> >> >>,
        <<"3", << <<"a", One>> >> >> >>]

\* The model of test/semaphore.coffee 32-53.
SemaphoreModel ==
  [states |-> <<"red", "yellow", "green">>, finalState |-> "green",
   symbols |-> <<"go", "stop">>,
   initialProbability |-> << <<"red", Div(8, 10)>>, <<"green", Div(2, 10)>> >>,
   transitionProbability |->
     << <<"green", << <<"yellow", Div(3, 10)>>, <<"green", Div(7, 10)>> >> >>,
        <<"yellow", << <<"stop", Div(8, 10)>>, <<"yellow", Div(2, 10)>> >> >>,
        <<"red", << <<"red", Div(6, 10)>>, <<"green", Div(4, 10)>> >> >> >>,
   emissionProbability |->
     << <<"red", << <<"stop", Div(9, 10)>>, <<"go", Div(1, 10)>> >> >>,
        <<"yellow", << <<"stop", Div(5, 10)>>, <<"go", Div(5, 10)>> >> >>,
        <<"green", << <<"go", One>> >> >> >>]

\* A family of two-state models over the symbols x and y, the final state F
\* in each position of the states order.
StateOrders == {<<"A", "B", "F">>, <<"A", "F", "B">>, <<"F", "A", "B">>}
InitialTables == { << <<"A", One>> >>, << <<"A", Half>>, <<"B", Half>> >> }
TransitionRows ==
  { << <<"F", One>> >>,
    << <<"B", Div(4, 5)>>, <<"F", Div(1, 5)>> >>,
    << <<"A", Half>>, <<"F", Half>> >>,
    << <<"A", Third>>, <<"B", Third>>, <<"F", Third>> >> }
EmissionRows ==
  { << <<"x", One>> >>,
    << <<"x", Third>>, <<"y", Div(2, 3)>> >> }

\* A table with a row for A and, when rowB is not the empty row, one for B.
TwoRows(rowA, rowB) ==
  IF rowB = <<>> THEN << <<"A", rowA>> >> ELSE << <<"A", rowA>>, <<"B", rowB>> >>

FamilyModels ==
  { [states |-> st, finalState |-> "F", symbols |-> <<"x", "y">>,
     initialProbability |-> i,
     transitionProbability |-> TwoRows(ta, tb),
     emissionProbability |-> TwoRows(ea, eb)] :
      st \in StateOrders, i \in InitialTables,
      ta \in TransitionRows, tb \in TransitionRows \cup {<<>>},
      ea \in EmissionRows, eb \in EmissionRows }

RECURSIVE SeqsUpTo(_, _)
SeqsUpTo(S, n) ==
  IF n = 0 THEN {<<>>}
  ELSE LET shorter == SeqsUpTo(S, n - 1)
       IN  shorter \cup {Append(s, x) : s \in shorter, x \in S}

\* Items of length 1..MaxLen over the model's symbols and one symbol, z,
\* that no model has.
ItemsOver(S) == SeqsUpTo(S, MaxLen) \ {<<>>}
QueryItems(this) == ItemsOver(Range(this.symbols) \cup {"z"})

\* Keys to look up: those of the model and one, "C" or "z", it does not hold.
StateKeys(this) == Range(this.states) \cup {"C"}
SymbolKeys(this) == Range(this.symbols) \cup {"z"}

SetModel(this) ==
  /\ states' = this.states
  /\ finalState' = this.finalState
  /\ symbols' = this.symbols
  /\ initialProbability' = this.initialProbability
  /\ transitionProbability' = this.transitionProbability
  /\ emissionProbability' = this.emissionProbability

Constructed(models) ==
  /\ \E this \in models :
       /\ states = this.states
       /\ finalState = this.finalState
       /\ symbols = this.symbols
       /\ initialProbability = this.initialProbability
       /\ transitionProbability = this.transitionProbability
       /\ emissionProbability = this.emissionProbability
  /\ call = Idle

CallIp ==
  /\ call = Idle
  /\ \E state \in StateKeys(This) :
    /\ call' = [op |-> "ip", args |-> <<state>>, value |-> ip(This, state)]
    /\ UNCHANGED vars

CallTp ==
  /\ call = Idle
  /\ \E source \in StateKeys(This), target \in StateKeys(This) :
    /\ call' = [op |-> "tp", args |-> <<source, target>>, value |-> tp(This, source, target)]
    /\ UNCHANGED vars

CallEp ==
  /\ call = Idle
  /\ \E state \in StateKeys(This), symbol \in SymbolKeys(This) :
    /\ call' = [op |-> "ep", args |-> <<state, symbol>>, value |-> ep(This, state, symbol)]
    /\ UNCHANGED vars

CallViterbi ==
  /\ call = Idle
  /\ \E item \in QueryItems(This) :
    LET r == viterbi(This, item)
    IN  /\ call' = [op |-> "viterbi", item |-> item, raised |-> r.raised,
                    probability |-> r.probability, defined |-> r.defined,
                    path |-> r.path]
        /\ UNCHANGED vars

CallViterbiApproximation ==
  /\ call = Idle
  /\ \E item \in QueryItems(This) :
    LET r == viterbi(This, item)
    IN  /\ call' = [op |-> "viterbiApproximation", item |-> item, raised |-> r.raised,
                    value |-> r.probability]
        /\ UNCHANGED vars

\* optimalStateSequence returns viterbi( item ).path.
CallOptimalStateSequence ==
  /\ call = Idle
  /\ \E item \in QueryItems(This) :
    LET r == viterbi(This, item)
    IN  /\ call' = [op |-> "optimalStateSequence", item |-> item, raised |-> r.raised,
                    defined |-> r.defined, path |-> r.path]
        /\ UNCHANGED vars

CallGenerationProbability ==
  /\ call = Idle
  /\ \E item \in QueryItems(This) :
    /\ call' = [op |-> "generationProbability", item |-> item, raised |-> FALSE,
                value |-> generationProbability(This, item)]
    /\ UNCHANGED vars

\* The collections of 1..n items over the symbols S.
ItemCollections(S, n) == SeqsUpTo(ItemsOver(S), n) \ {<<>>}

\* reestimate items, for a collection of at most n items
CallReestimate(n) ==
  /\ call = Idle
  /\ \E items \in ItemCollections(Range(symbols), n) :
    LET r == reestimate(This, items, NoPaths)
    IN  /\ call' = [op |-> "reestimate", items |-> items, paths |-> NoPaths,
                    raised |-> r.raised, passes |-> r.passes, before |-> This]
        /\ SetModel(r.this)

CallInitialize ==
  /\ call = Idle
  /\ \E items \in ItemCollections({"a", "b"}, MaxItems), n \in 1..MaxN :
    LET r == initialize(This, items, n)
    IN  /\ call' = [op |-> "initialize", items |-> items, n |-> n,
                    raised |-> r.raised, passes |-> r.passes, before |-> This]
        /\ SetModel(r.this)

\* The paths a caller may supply for an item: one state per symbol, then
\* finalState.
PathsFor(this, item) ==
  {Append(q, this.finalState) : q \in [1..Len(item) -> Range(this.states)]}

\* One path per item, for the first k items.
RECURSIVE PathCollections(_, _, _)
PathCollections(this, items, k) ==
  IF k = 0 THEN {<<>>}
  ELSE {Append(ps, p) : ps \in PathCollections(this, items, k - 1),
                        p \in PathsFor(this, items[k])}

\* reestimate items, paths, for a collection of at most n items
CallReestimatePaths(n) ==
  /\ call = Idle
  /\ \E items \in ItemCollections(Range(symbols), n) :
       \E paths \in PathCollections(This, items, Len(items)) :
         LET r == reestimate(This, items, paths)
         IN  /\ call' = [op |-> "reestimate", items |-> items, paths |-> paths,
                         raised |-> r.raised, passes |-> r.passes, before |-> This]
             /\ SetModel(r.this)

\* reestimate of part_000 on one item, with a supplied path or without
CallReestimateJs ==
  /\ call = Idle
  /\ \E items \in ItemCollections(Range(symbols), 1) :
       \E paths \in PathCollections(This, items, Len(items)) \cup {NoPaths} :
         LET r == reestimateJs(This, items, paths)
         IN  /\ call' = [op |-> "reestimateJs", items |-> items, paths |-> paths,
                         raised |-> r.raised, passes |-> r.passes, before |-> This]
             /\ SetModel(r.this)

\* initialize items, n with no items, or with n = 0 and one or two items
CallInitializeDegenerate ==
  /\ call = Idle
  /\ \E items \in ItemCollections({"a", "b"}, 2) \cup {<<>>}, n \in 0..MaxN :
    /\ items = <<>> \/ n = 0
    /\ LET r == initialize(This, items, n)
       IN  /\ call' = [op |-> "initialize", items |-> items, n |-> n,
                       raised |-> r.raised, passes |-> r.passes, before |-> This]
           /\ SetModel(r.this)

\* initialize items, n for one or two items, the empty item among them
CallInitializeAnyItem ==
  /\ call = Idle
  /\ \E items \in SeqsUpTo(SeqsUpTo({"a", "b"}, MaxLen), 2) \ {<<>>}, n \in 1..MaxN :
    LET r == initialize(This, items, n)
    IN  /\ call' = [op |-> "initialize", items |-> items, n |-> n,
                    raised |-> r.raised, passes |-> r.passes, before |-> This]
        /\ SetModel(r.this)

\* The call returns to the caller.
Return ==
  /\ call # Idle
  /\ call' = Idle
  /\ UNCHANGED vars

\* The queries on one model: nothing changes the model.
InitQuery == Constructed(FamilyModels \cup {FreshModel, ReadmeModel, SemaphoreModel})

NextQuery ==
  \/ CallIp
  \/ CallTp
  \/ CallEp
  \/ CallViterbi
  \/ CallViterbiApproximation
  \/ CallOptimalStateSequence
  \/ CallGenerationProbability
  \/ Return

SpecQuery == InitQuery /\ [][NextQuery]_allvars

\* Training a model of the family on one item over its own symbols.
InitTrain == Constructed(FamilyModels)

NextTrain ==
  \/ CallReestimate(1)
  \/ Return

SpecTrain == InitTrain /\ [][NextTrain]_allvars

\* Training a model of the family on a collection of items.
NextTrainMany ==
  \/ CallReestimate(MaxItems)
  \/ Return

SpecTrainMany == InitTrain /\ [][NextTrainMany]_allvars

\* One training call on a model as constructed: on one or two items with
\* the paths the caller supplies, or on one item without paths.  A model of
\* one state and two symbols, and one of two states and one symbol.
PathModels ==
  { [states |-> <<"A", "F">>, finalState |-> "F", symbols |-> <<"x", "y">>,
     initialProbability |-> << <<"A", One>> >>,
     transitionProbability |-> << <<"A", << <<"A", Half>>, <<"F", Half>> >> >> >>,
     emissionProbability |-> << <<"A", << <<"x", Third>>, <<"y", Div(2, 3)>> >> >> >>],
    [states |-> <<"A", "B", "F">>, finalState |-> "F", symbols |-> <<"x">>,
     initialProbability |-> << <<"A", Half>>, <<"B", Half>> >>,
     transitionProbability |->
       TwoRows(<< <<"B", Div(4, 5)>>, <<"F", Div(1, 5)>> >>, << <<"F", One>> >>),
     emissionProbability |-> TwoRows(<< <<"x", One>> >>, << <<"x", One>> >>)] }

InitPaths == Constructed(PathModels)

NextPaths ==
  \/ CallReestimatePaths(2)
  \/ CallReestimate(1)

SpecPaths == InitPaths /\ [][NextPaths]_allvars

\* The older implementation: the model of test/semaphore.coffee, reestimated.
InitJs == Constructed({SemaphoreModel})

NextJs ==
  \/ CallReestimateJs
  \/ Return

SpecJs == InitJs /\ [][NextJs]_allvars

\* initialize at its boundary: no items, or no states asked for.
InitDegenerate == Constructed({FreshModel, ReadmeModel, SemaphoreModel})

NextDegenerate ==
  \/ CallInitializeDegenerate
  \/ Return

SpecDegenerate == InitDegenerate /\ [][NextDegenerate]_allvars

\* One initialize call on a model as constructed, items of any length.
InitSegment == Constructed({FreshModel, ReadmeModel})

NextSegment == CallInitializeAnyItem

SpecSegment == InitSegment /\ [][NextSegment]_allvars

\* The life of a model object: constructed empty or as in the README, then
\* initialized and reestimated any number of times.  The queries, which
\* leave the model as it is, are those of SpecQuery.
Init == Constructed({FreshModel, ReadmeModel})

Next ==
  \/ CallInitialize
  \/ CallReestimate(MaxItems)
  \/ Return

Spec == Init /\ [][Next]_allvars

\* ------------------------------------------------------------- reference

\* The probability of generating item along the state sequence q followed by
\* finalState: ip(q_0)*ep(q_0,x_0) * prod tp(q_(t-1),q_t)*ep(q_t,x_t) * tp(q_(L-1),finalState).
RECURSIVE PathProduct(_, _, _, _)
PathProduct(this, item, q, t) ==
  IF t = 1 THEN Mul(ip(this, q[1]), ep(this, q[1], item[1]))
  ELSE Mul(PathProduct(this, item, q, t - 1),
           Mul(tp(this, q[t - 1], q[t]), ep(this, q[t], item[t])))

PathProbability(this, item, q) ==
  Mul(PathProduct(this, item, q, Len(item)), tp(this, q[Len(item)], this.finalState))

StateSequences(this, L) == [1..L -> Range(this.states)]

RECURSIVE SumOver(_, _, _)
SumOver(this, item, Q) ==
  IF Q = {} THEN Zero
  ELSE LET q == CHOOSE q \in Q : TRUE
       IN  Add(PathProbability(this, item, q), SumOver(this, item, Q \ {q}))

\* The exact sum and the exact maximum over all state sequences.
BruteSum(this, item) == SumOver(this, item, StateSequences(this, Len(item)))

BruteMax(this, item) ==
  LET Q == StateSequences(this, Len(item))
  IN  IF Q = {} THEN Zero
      ELSE PathProbability(this, item,
             CHOOSE q \in Q : \A r \in Q :
               Geq(PathProbability(this, item, q), PathProbability(this, item, r)))

\* No state sequence generates the item.
Impossible(this, item) ==
  \A q \in StateSequences(this, Len(item)) : ~Positive(PathProbability(this, item, q))

FinalInStates == finalState \in Range(states)

\* ------------------------------------------------------------- claims

\* C1: ip, tp and ep are total: a key missing at any nesting level reads
\* exactly 0, a key that is present reads the stored value.
C1_AccessorsTotal ==
  /\ call.op = "ip" =>
       IF \E i \in DOMAIN initialProbability : initialProbability[i][1] = call.args[1]
       THEN \E i \in DOMAIN initialProbability :
              initialProbability[i] = <<call.args[1], call.value>>
       ELSE call.value = Zero
  /\ call.op = "tp" =>
       IF \E i \in DOMAIN transitionProbability :
            /\ transitionProbability[i][1] = call.args[1]
            /\ \E j \in DOMAIN transitionProbability[i][2] :
                 transitionProbability[i][2][j][1] = call.args[2]
       THEN \E i \in DOMAIN transitionProbability :
              /\ transitionProbability[i][1] = call.args[1]
              /\ \E j \in DOMAIN transitionProbability[i][2] :
                   transitionProbability[i][2][j] = <<call.args[2], call.value>>
       ELSE call.value = Zero
  /\ call.op = "ep" =>
       IF \E i \in DOMAIN emissionProbability :
            /\ emissionProbability[i][1] = call.args[1]
            /\ \E j \in DOMAIN emissionProbability[i][2] :
                 emissionProbability[i][2][j][1] = call.args[2]
       THEN \E i \in DOMAIN emissionProbability :
              /\ emissionProbability[i][1] = call.args[1]
              /\ \E j \in DOMAIN emissionProbability[i][2] :
                   emissionProbability[i][2][j] = <<call.args[2], call.value>>
       ELSE call.value = Zero

\* tp has read 0 for a source that has a row without the target asked for.
C1_Witness ==
  /\ call.op = "tp"
  /\ \E i \in DOMAIN transitionProbability :
       /\ transitionProbability[i][1] = call.args[1]
       /\ \A j \in DOMAIN transitionProbability[i][2] :
            transitionProbability[i][2][j][1] # call.args[2]
  /\ call.value = Zero

\* C2: with finalState among the states, the path viterbi returns for an
\* item of length L has L + 1 states and ends in finalState.
C2_PathEndsInFinalState ==
  (call.op = "viterbi" /\ FinalInStates /\ ~call.raised) =>
    /\ call.defined
    /\ Len(call.path) = Len(call.item) + 1
    /\ call.path[Len(call.path)] = finalState

\* C3: with finalState among the states, the probability viterbi returns is
\* the maximum over all state sequences of the path probability, rounded to
\* 6 digits.
C3_ViterbiIsBruteForceMax ==
  (call.op = "viterbi" /\ FinalInStates) =>
    /\ ~call.raised
    /\ call.probability = ToFixed(BruteMax(This, call.item))

\* viterbi has returned a positive probability where two state sequences
\* generate the item with different positive probabilities.
C3_Witness ==
  /\ call.op = "viterbi"
  /\ FinalInStates
  /\ Positive(call.probability)
  /\ \E q, r \in StateSequences(This, Len(call.item)) :
       /\ Positive(PathProbability(This, call.item, q))
       /\ Positive(PathProbability(This, call.item, r))
       /\ PathProbability(This, call.item, q) # PathProbability(This, call.item, r)

\* C4: with finalState among the states, generationProbability returns the
\* exact sum over all state sequences of the path probability, rounded once
\* to 6 digits.
C4_ForwardIsExactSum ==
  (call.op = "generationProbability" /\ FinalInStates) =>
    call.value = ToFixed(BruteSum(This, call.item))

\* C5: what viterbiApproximation returns for an item is at most what
\* generationProbability returns for it.
C5_ViterbiAtMostForward ==
  (call.op = "generationProbability" /\ ~viterbi(This, call.item).raised) =>
    Geq(call.value, viterbiApproximation(This, call.item))

\* C6: for an item no state sequence generates, viterbiApproximation and
\* generationProbability both return exactly 0 and neither raises.
C6_ImpossibleItemScoresZero ==
  /\ (call.op = "viterbiApproximation" /\ Impossible(This, call.item)) =>
       (~call.raised /\ call.value = Zero)
  /\ (call.op = "generationProbability" /\ Impossible(This, call.item)) =>
       (~call.raised /\ call.value = Zero)

C8_UndefinedWhenImpossible ==
  (call.op = "optimalStateSequence" /\ ~call.raised) =>
    (call.defined <=> Positive(viterbiApproximation(This, call.item)))

\* The tables are normalised: the initial probabilities sum to 1 and every
\* state but finalState has a transition row and an emission row that sum to 1.
RECURSIVE RowSum(_, _)
RowSum(row, k) == IF k = 0 THEN Zero ELSE Add(RowSum(row, k - 1), row[k][2])

Normalised(this) ==
  /\ RowSum(this.initialProbability, Len(this.initialProbability)) = One
  /\ \A s \in Range(this.states) \ {this.finalState} :
       /\ Has(this.transitionProbability, s)
       /\ Has(this.emissionProbability, s)
  /\ \A i \in DOMAIN this.transitionProbability :
       RowSum(this.transitionProbability[i][2], Len(this.transitionProbability[i][2])) = One
  /\ \A i \in DOMAIN this.emissionProbability :
       RowSum(this.emissionProbability[i][2], Len(this.emissionProbability[i][2])) = One

\* reestimate([item]) without paths has returned; the model was normalised.
ReestimatedOneItem ==
  /\ call.op = "reestimate"
  /\ Normalised(call.before)
  /\ Len(call.items) = 1
  /\ call.paths = NoPaths
  /\ ~call.raised

C10_InitializeOneItemGivesOne ==
  (/\ call.op = "initialize"
   /\ call.before = FreshModel
   /\ Len(call.items) = 1
   /\ call.n = Len(call.items[1])) =>
    /\ ~call.raised
    /\ viterbiApproximation(This, call.items[1]) = One
    /\ generationProbability(This, call.items[1]) = One

\* C11: after initialize(items, N) on a fresh model, items being two or more
\* distinct non-empty items and N >= 1, viterbiApproximation and
\* generationProbability are positive for every item of the collection.
C11_InitializeSeveralPositive ==
  (/\ call.op = "initialize"
   /\ call.before = FreshModel
   /\ Len(call.items) >= 2
   /\ \A i, j \in DOMAIN call.items : i # j => call.items[i] # call.items[j]
   /\ call.n >= 1) =>
    /\ ~call.raised
    /\ \A i \in DOMAIN call.items :
         /\ ~viterbi(This, call.items[i]).raised
         /\ Positive(viterbiApproximation(This, call.items[i]))
         /\ Positive(generationProbability(This, call.items[i]))

\* The paths a training call has counted: those supplied, those of the
\* linear segmentation, or those viterbi decoded on the model as it was.
UsedPaths ==
  IF call.op = "initialize"
  THEN [i \in DOMAIN call.items |-> SegmentationPath(call.items[i], call.n)]
  ELSE IF call.paths = NoPaths
       THEN [i \in DOMAIN call.items |-> viterbi(call.before, call.items[i]).path]
       ELSE call.paths

\* The number of paths that start in state s.
Starts(paths, s) == Cardinality({i \in DOMAIN paths : paths[i][1] = s})

\* C12: after reestimate(items, paths), ip(s) is the number of paths that
\* start in s over the number of paths, for every state s, and the initial
\* probabilities sum to 1.
C12_InitialsAreRelativeFrequencies ==
  (call.op = "reestimate" /\ call.paths # NoPaths /\ ~call.raised) =>
    /\ \A s \in Range(states) :
         ip(This, s) = Div(Starts(call.paths, s), Len(call.paths))
    /\ RowSum(initialProbability, Len(initialProbability)) = One

\* The positions <<i, j>> of the non-last elements of the paths.
Sources(paths) ==
  {p \in (DOMAIN paths) \X (1..MaxLen) : p[2] < Len(paths[p[1]])}

\* How often s is a non-last element, how often t follows s, and how often
\* s stands where the item has the symbol x.
Occurrences(paths, s) ==
  Cardinality({p \in Sources(paths) : paths[p[1]][p[2]] = s})
Follows(paths, s, t) ==
  Cardinality({p \in Sources(paths) :
                 paths[p[1]][p[2]] = s /\ paths[p[1]][p[2] + 1] = t})
Emits(items, paths, s, x) ==
  Cardinality({p \in Sources(paths) :
                 paths[p[1]][p[2]] = s /\ items[p[1]][p[2]] = x})

\* C13: after reestimate(items, paths), for every state s that is a non-last
\* element of a path, tp(s, t) is the number of times t follows s over the
\* number of times s is a non-last element, ep(s, x) is the number of times
\* s stands at a symbol x over the same number, and the rows of s sum to 1.
C13_TablesAreRelativeFrequencies ==
  (call.op = "reestimate" /\ call.paths # NoPaths /\ ~call.raised) =>
    \A s \in Range(states) :
      Occurrences(call.paths, s) > 0 =>
        /\ \A t \in Range(states) :
             tp(This, s, t) = Div(Follows(call.paths, s, t), Occurrences(call.paths, s))
        /\ \A x \in Range(symbols) :
             ep(This, s, x) = Div(Emits(call.items, call.paths, s, x),
                                  Occurrences(call.paths, s))
        /\ Has(transitionProbability, s)
        /\ Has(emissionProbability, s)
        /\ LET row == Get(transitionProbability, s) IN RowSum(row, Len(row)) = One
        /\ LET row == Get(emissionProbability, s) IN RowSum(row, Len(row)) = One

\* reestimate has counted two paths in which A is followed by A and by F
\* and stands at an x and at a y.
C13_Witness ==
  /\ call.op = "reestimate"
  /\ call.paths # NoPaths
  /\ ~call.raised
  /\ Len(call.paths) = 2
  /\ Occurrences(call.paths, "A") = 3
  /\ tp(This, "A", "A") = Third
  /\ tp(This, "A", "F") = Div(2, 3)
  /\ ep(This, "A", "x") = Div(2, 3)
  /\ ep(This, "A", "y") = Third

\* What a table { key: row } holds, whatever the order of its properties.
Entries(table) == {<<table[i][1], Range(table[i][2])>> : i \in DOMAIN table}

\* C14: when reestimate(items) without paths has returned, the tables are a
\* fixed point of the training step: a second reestimate(items) decodes the
\* items again and leaves the transition and emission tables as they are.
C14_ReestimateReachesFixedPoint ==
  (call.op = "reestimate" /\ call.paths = NoPaths /\ ~call.raised) =>
    LET again == reestimate(This, call.items, NoPaths)
    IN  /\ ~again.raised
        /\ Entries(again.this.transitionProbability) = Entries(transitionProbability)
        /\ Entries(again.this.emissionProbability) = Entries(emissionProbability)

\* C15: once reestimate(items, paths) has returned, reestimate(items, paths)
\* again leaves initialProbability, transitionProbability and
\* emissionProbability as they are.
C15_ReestimatePathsIdempotent ==
  (call.op = "reestimate" /\ call.paths # NoPaths /\ ~call.raised) =>
    LET again == reestimate(This, call.items, call.paths)
    IN  /\ ~again.raised
        /\ again.this.initialProbability = initialProbability
        /\ again.this.transitionProbability = transitionProbability
        /\ again.this.emissionProbability = emissionProbability

\* reestimate has replaced both tables of the model from two supplied paths,
\* in two passes.
C15_Witness ==
  /\ call.op = "reestimate"
  /\ call.paths # NoPaths
  /\ ~call.raised
  /\ Len(call.paths) = 2
  /\ call.passes = 2
  /\ transitionProbability # call.before.transitionProbability
  /\ emissionProbability # call.before.emissionProbability

\* C16: what initialize(items, N) leaves depends on items and N alone: the
\* states, the symbols, finalState and every value of ip, tp and ep are those
\* the same call leaves on a model constructed with no arguments.
C16_InitializeIgnoresPrior ==
  call.op = "initialize" =>
    LET fresh == initialize(FreshModel, call.items, call.n).this
    IN  /\ states = fresh.states
        /\ symbols = fresh.symbols
        /\ finalState = fresh.finalState
        /\ Range(initialProbability) = Range(fresh.initialProbability)
        /\ Entries(transitionProbability) = Entries(fresh.transitionProbability)
        /\ Entries(emissionProbability) = Entries(fresh.emissionProbability)

\* C17: reestimate, with or without supplied paths, leaves the contents and
\* the order of states and of symbols as they were.
C17_ReestimateKeepsStatesAndSymbols ==
  call.op = "reestimate" =>
    /\ states = call.before.states
    /\ symbols = call.before.symbols

\* reestimate has replaced both tables from an item that lacks a symbol of
\* the model and a path that lacks a state of the model.
C17_Witness ==
  /\ call.op = "reestimate"
  /\ ~call.raised
  /\ transitionProbability # call.before.transitionProbability
  /\ emissionProbability # call.before.emissionProbability
  /\ \E x \in Range(symbols) : \A i \in DOMAIN call.items : x \notin Range(call.items[i])
  /\ \E s \in Range(states) : \A i \in DOMAIN UsedPaths : s \notin Range(UsedPaths[i])

\* C18: a reestimate or an initialize call on a model whose finalState is
\* among its states leaves finalState among the states.
C18_FinalStateStaysInStates ==
  (/\ call.op \in {"reestimate", "reestimateJs", "initialize"}
   /\ call.before.finalState \in Range(call.before.states)) =>
    finalState \in Range(states)

\* finalState is the last of the states and has no emission row.
FinalStateSilent(this) ==
  /\ this.states # <<>>
  /\ this.states[Len(this.states)] = this.finalState
  /\ ~Has(this.emissionProbability, this.finalState)

\* C19: initialize(items, N) and reestimate(items) without paths, on a model
\* whose finalState is last in states and has no emission row, leave
\* emissionProbability without a row for finalState.
C19_FinalStateNeverEmits ==
  (/\ \/ call.op = "initialize"
      \/ call.op = "reestimate" /\ call.paths = NoPaths
   /\ FinalStateSilent(call.before)) =>
    /\ ~Has(emissionProbability, finalState)
    /\ \A x \in Range(symbols) : ep(This, finalState, x) = Zero

\* A number: not undefined, not the NaN of a division by zero.
IsNumber(v) == v # Undefined /\ v[2] > 0

\* C20: initialize([], N) for N >= 0 and initialize(items, 0) return without
\* raising, after at most two passes of the loop, and leave a model on
\* which ip, tp and ep return numbers for every key.
C20_DegenerateInitializeCompletes ==
  (call.op = "initialize" /\ (call.items = <<>> \/ call.n = 0)) =>
    /\ ~call.raised
    /\ call.passes <= 2
    /\ \A s \in StateKeys(This) :
         /\ IsNumber(ip(This, s))
         /\ \A t \in StateKeys(This) : IsNumber(tp(This, s, t))
         /\ \A x \in SymbolKeys(This) : IsNumber(ep(This, s, x))

\* initialize(items, 0) has returned on a model that had tables: the states
\* are 1, 0 and F, those of the descending range [1..0], and every symbol
\* is counted for state 1.
C20_Witness ==
  /\ call.op = "initialize"
  /\ ~call.raised
  /\ call.n = 0
  /\ call.items # <<>>
  /\ call.before.transitionProbability # <<>>
  /\ states = <<"1", "0", "F">>
  /\ tp(This, "1", "F") # Zero

\* The best score of a state sequence of length t that ends in state s,
\* before the move into finalState.
Delta(this, item, t, s) ==
  LET Q == {q \in StateSequences(this, t) : q[t] = s}
      best == CHOOSE q \in Q : \A r \in Q :
                Geq(PathProduct(this, item, q, t), PathProduct(this, item, r, t))
  IN  PathProduct(this, item, best, t)

\* The last state, in the states order, whose score is the largest.
LastBest(this, score) ==
  LET st == this.states
      i == CHOOSE i \in DOMAIN st :
             /\ \A j \in DOMAIN st : Geq(score[st[i]], score[st[j]])
             /\ \A j \in DOMAIN st : j > i => score[st[j]] # score[st[i]]
  IN  st[i]

\* The path p takes at step t (t >= 2) the predecessor that the recurrence
\* takes for the target p[t]: the last of the best sources.
ExtendsLastBest(this, item, p, t) ==
  p[t - 1] = LastBest(this, [s \in Range(this.states) |->
                              Mul(Delta(this, item, t - 1, s),
                                  Mul(tp(this, s, p[t]), ep(this, p[t], item[t])))])

\* C21: in the recurrence and in the termination of viterbi, of the sources
\* that give a target the same largest score the one that is last in the
\* states order is the one whose path is extended, scores of 0 included.
\* The path returned shows it at each of its steps.
C21_TiesFavourLastSource ==
  (call.op = "viterbi" /\ ~call.raised /\ call.defined) =>
    LET L == Len(call.item)
        p == call.path
    IN  /\ \A t \in 2..L : ExtendsLastBest(This, call.item, p, t)
        /\ Len(p) = L + 1 =>
             p[L] = LastBest(This, [s \in Range(states) |->
                                     Mul(Delta(This, call.item, L, s),
                                         tp(This, s, finalState))])

\* viterbi has returned a path of positive probability whose last step was
\* a tie between two sources, and has extended the second.
C21_Witness ==
  /\ call.op = "viterbi"
  /\ ~call.raised
  /\ Positive(call.probability)
  /\ Len(call.path) = Len(call.item) + 1
  /\ \E i, j \in DOMAIN states :
       /\ i < j
       /\ call.path[Len(call.item)] = states[j]
       /\ Mul(Delta(This, call.item, Len(call.item), states[i]), tp(This, states[i], finalState))
            = Mul(Delta(This, call.item, Len(call.item), states[j]), tp(This, states[j], finalState))

\* The first state, in the states order, whose score is the largest.
FirstBest(this, score) ==
  LET st == this.states
      i == CHOOSE i \in DOMAIN st :
             /\ \A j \in DOMAIN st : Geq(score[st[i]], score[st[j]])
             /\ \A j \in DOMAIN st : j < i => score[st[j]] # score[st[i]]
  IN  st[i]

\* The terminal scores: that of the termination for finalState, 0 for every
\* other state.
TerminalScores(this, item) ==
  LET L == Len(item)
      term == [s \in Range(this.states) |->
                Mul(Delta(this, item, L, s), tp(this, s, this.finalState))]
  IN  [s \in Range(this.states) |->
        IF s = this.finalState THEN term[LastBest(this, term)] ELSE Zero]

\* C22: the final selection of viterbi replaces the best only by a strictly
\* greater score, so the path returned is that of the first state, in the
\* states order, whose terminal score is the largest: the path ends in it.
C22_FinalSelectionFavoursFirst ==
  (call.op = "viterbi" /\ ~call.raised /\ call.defined) =>
    call.path[Len(call.path)] = FirstBest(This, TerminalScores(This, call.item))

\* C23: the path initialize(items, N), N >= 1, makes for an item of length
\* M >= 0 has M + 1 elements: element j is the state floor(j * N / (M + 1)) + 1,
\* one of the states "1".."N", and the last is "F".
C23_SegmentationPathShape ==
  (call.op = "initialize" /\ call.n >= 1) =>
    \A i \in DOMAIN call.items :
      LET M == Len(call.items[i])
          p == UsedPaths[i]
      IN  /\ Len(p) = M + 1
          /\ \A j \in 1..M :
               /\ j <= Len(p)
               /\ p[j] = Str(((j * call.n) \div (M + 1)) + 1)
               /\ p[j] \in Range(states) \ {"F"}
          /\ p[Len(p)] = "F"

\* The states a table has a row for, and the non-last elements of the paths.
RowKeys(table) == {table[i][1] : i \in DOMAIN table}
NonLast(paths) == {paths[p[1]][p[2]] : p \in Sources(paths)}

\* C24: after reestimate returns, transitionProbability and
\* emissionProbability have a row for s exactly when s is a non-last element
\* of a path the call used; the rows other states had before are gone, and
\* tp and ep read 0 for them.
C24_RowsOnlyForCountedStates ==
  (call.op = "reestimate" /\ ~call.raised) =>
    /\ RowKeys(transitionProbability) = NonLast(UsedPaths)
    /\ RowKeys(emissionProbability) = NonLast(UsedPaths)
    /\ \A s \in (Range(states) \cup RowKeys(call.before.transitionProbability)
                               \cup RowKeys(call.before.emissionProbability))
                 \ NonLast(UsedPaths) :
         /\ \A t \in Range(states) : tp(This, s, t) = Zero
         /\ \A x \in Range(symbols) : ep(This, s, x) = Zero

\* B had a row in both tables and a positive tp before reestimate, the paths
\* used do not go through B, and its rows are gone.
C24_Witness ==
  /\ call.op = "reestimate"
  /\ ~call.raised
  /\ Has(call.before.transitionProbability, "B")
  /\ Has(call.before.emissionProbability, "B")
  /\ Positive(tp(call.before, "B", "F"))
  /\ "B" \notin NonLast(UsedPaths)
  /\ "A" \in NonLast(UsedPaths)
  /\ ~Has(transitionProbability, "B")
  /\ ~Has(emissionProbability, "B")
  /\ tp(This, "B", "F") = Zero

\* C25: the loop of reestimate ends, after at most two passes: the paths are
\* fixed by the first pass, so the second pass writes the tables of the
\* first and shouldRepeat is false.  A call that returns has made a pass,
\* and one that ends in two has written the same tables twice.
C25_AtMostTwoPasses ==
  (call.op \in {"reestimate", "initialize"}) =>
    /\ call.passes <= 2
    /\ ~call.raised =>
         /\ call.passes >= 1
         /\ This = Pass(This, call.items, UsedPaths)
         /\ call.passes = 1 <=> ~ShouldRepeat(call.before, This)

\* reestimate has decoded the paths itself, the first pass has changed the
\* tables, and the loop has ended after the second.
C25_Witness ==
  /\ call.op = "reestimate"
  /\ ~call.raised
  /\ call.paths = NoPaths
  /\ call.passes = 2
  /\ ShouldRepeat(call.before, This)
  /\ ~ShouldRepeat(This, Pass(This, call.items, UsedPaths))

\* The probability viterbi holds before toFixed rounds it.
Unrounded(this, item) ==
  FinalSelection(this, Termination(this, Trellis(this, item, Len(item) - 1)))[1]

\* C26: when viterbi(item) returns a probability > 0, the path it returns is
\* one state per symbol and then finalState, and the product of ip, ep and tp
\* along that path, the move into finalState included, is the probability
\* returned, before rounding and so after it.
C26_ReturnedPathHasReturnedProbability ==
  (call.op = "viterbi" /\ ~call.raised /\ Positive(call.probability)) =>
    LET L == Len(call.item)
        q == call.path
    IN  /\ call.defined
        /\ Len(q) = L + 1
        /\ q[L + 1] = finalState
        /\ \A t \in 1..L : q[t] \in Range(states)
        /\ PathProbability(This, call.item, q) = Unrounded(This, call.item)
        /\ ToFixed(PathProbability(This, call.item, q)) = call.probability

\* viterbi has returned a probability between 0 and 1 for an item of two
\* symbols, with a path through two different states that is not the path
\* of the first state.
C26_Witness ==
  /\ call.op = "viterbi"
  /\ ~call.raised
  /\ Positive(call.probability)
  /\ call.probability # One
  /\ Len(call.item) = 2
  /\ Len(call.path) = 3
  /\ call.path[1] # call.path[2]
  /\ call.path[2] # states[1]
  /\ ToFixed(PathProbability(This, call.item, call.path)) = call.probability

====
